---- MODULE Spec2Model ----
(***************************************************************************)
(* Model of the vegi package: the shared numeric primitives of             *)
(* vegi/utils.py (validate, rescale, crop_to_bounds, inputs_to_float), the *)
(* index formulas of vegi/__init__.py that return through rescale, and     *)
(* pansharpen.                                                             *)
(*                                                                         *)
(* Numbers.  An array element is a record [k, n, d]: k = "fin" is the      *)
(* rational n/d in lowest terms with d > 0; k = "nan", "pinf", "ninf" are  *)
(* the IEEE specials (n = 0, d = 1).  Python's None is k = "none".         *)
(* Arithmetic follows IEEE 754 for the specials (x/0, 0/0, inf - inf, ...) *)
(* and is exact on finite values: the rounding of each arithmetic result   *)
(* to the array's precision is not modelled, nor is the sign of zero.  The *)
(* conversion to float32 done by inputs_to_float is modelled by its        *)
(* rounding to a 24-bit significand (ToFloat32).                           *)
(*                                                                         *)
(* An array is a record [dtype, data]: data is the flattened sequence of   *)
(* its elements (all operations of the package are elementwise).           *)
(***************************************************************************)
EXTENDS Integers, Sequences, FiniteSets, TLC

\* ------------------------------------------------------------------ bounds

\* Longest array (number of pixels) drawn as an input.
MaxLen == 1
\* Largest band sample drawn as an input.
MaxVal == 2
\* Largest low / high / bound parameter drawn as an input.
MaxPar == 1

\* ----------------------------------------------------------------- numbers

Abs(i) == IF i < 0 THEN -i ELSE i

RECURSIVE Gcd(_, _)
Gcd(a, b) == IF b = 0 THEN a ELSE Gcd(b, a % b)

Fin(n, d) == [k |-> "fin", n |-> n, d |-> d]
NaN  == [k |-> "nan",  n |-> 0, d |-> 1]
PInf == [k |-> "pinf", n |-> 0, d |-> 1]
NInf == [k |-> "ninf", n |-> 0, d |-> 1]
None == [k |-> "none", n |-> 0, d |-> 1]

\* The rational n/d (d # 0) in lowest terms with a positive denominator.
Norm(n, d) ==
    LET g == Gcd(Abs(n), Abs(d))
        s == IF d < 0 THEN -1 ELSE 1
    IN  Fin((s * n) \div g, (s * d) \div g)

Int2F(i) == Fin(i, 1)
IsFin(x) == x.k = "fin"
IsNan(x) == x.k = "nan"
IsInf(x) == x.k \in {"pinf", "ninf"}
Sign(x)  == CASE x.k = "pinf" -> 1
              [] x.k = "ninf" -> -1
              [] OTHER -> IF x.n > 0 THEN 1 ELSE IF x.n < 0 THEN -1 ELSE 0
InfOf(s) == IF s > 0 THEN PInf ELSE NInf

Neg(x) == CASE x.k = "pinf" -> NInf
            [] x.k = "ninf" -> PInf
            [] x.k = "fin"  -> Fin(-x.n, x.d)
            [] OTHER -> x

\* x + y
Add(x, y) ==
    CASE IsNan(x) \/ IsNan(y) -> NaN
      [] IsInf(x) /\ IsInf(y) -> IF x.k = y.k THEN x ELSE NaN
      [] IsInf(x) -> x
      [] IsInf(y) -> y
      [] OTHER ->
           LET g == Gcd(x.d, y.d)
           IN  Norm(x.n * (y.d \div g) + y.n * (x.d \div g), x.d * (y.d \div g))

\* x - y
Sub(x, y) == Add(x, Neg(y))

\* x * y
Mul(x, y) ==
    CASE IsNan(x) \/ IsNan(y) -> NaN
      [] IsInf(x) \/ IsInf(y) ->
           IF Sign(x) * Sign(y) = 0 THEN NaN ELSE InfOf(Sign(x) * Sign(y))
      [] OTHER ->
           LET g1 == Gcd(Abs(x.n), y.d)
               g2 == Gcd(Abs(y.n), x.d)
           IN  Norm((x.n \div g1) * (y.n \div g2), (x.d \div g2) * (y.d \div g1))

\* x / y, numpy true division of floating-point values
Div(x, y) ==
    CASE IsNan(x) \/ IsNan(y) -> NaN
      [] IsInf(x) /\ IsInf(y) -> NaN
      [] IsInf(x) -> InfOf(Sign(x) * (IF Sign(y) < 0 THEN -1 ELSE 1))
      [] IsInf(y) -> Int2F(0)
      [] y.n = 0 -> IF x.n = 0 THEN NaN ELSE InfOf(Sign(x))
      [] OTHER -> Mul(x, Norm(y.d, y.n))

\* x < y and x > y as numpy compares them (False when either is NaN)
Lt(x, y) ==
    CASE IsNan(x) \/ IsNan(y) -> FALSE
      [] x.k = "pinf" \/ y.k = "ninf" -> FALSE
      [] x.k = "ninf" \/ y.k = "pinf" -> TRUE
      [] OTHER -> Sign(Sub(x, y)) < 0
Gt(x, y) == Lt(y, x)
Le(x, y) == IsFin(x) /\ IsFin(y) /\ ~Lt(y, x)

\* ------------------------------------------------------------------ arrays

RECURSIVE Pow2(_)
Pow2(e) == IF e = 0 THEN 1 ELSE 2 * Pow2(e - 1)

\* Smallest m = a * 2^e (e >= 0) with m \div d >= 2^23, as <<m, e>>.
RECURSIVE Scale(_, _, _)
Scale(m, d, e) == IF m \div d >= Pow2(23) THEN <<m, e>> ELSE Scale(2 * m, d, e + 1)

\* np.float32(x): x rounded to the nearest number with a 24-bit significand,
\* ties to even.  Defined for the magnitudes the model draws (|x| < 2^24;
\* no overflow to Inf, no subnormals).
ToFloat32(x) ==
    IF ~IsFin(x) \/ x.n = 0 THEN x
    ELSE LET me  == Scale(Abs(x.n), x.d, 0)
             q   == me[1] \div x.d
             rem == me[1] % x.d
             up  == 2 * rem > x.d \/ (2 * rem = x.d /\ q % 2 = 1)
             sig == IF up THEN q + 1 ELSE q
         IN  Norm(Sign(x) * sig, Pow2(me[2]))

Array(dtype, data) == [dtype |-> dtype, data |-> data]
IntDtypes   == {"uint16", "int64"}
FloatDtypes == {"float64", "float32"}

\* np.asarray(x, dtype=np.float32)
asarray_float32(x) ==
    Array("float32", [i \in DOMAIN x.data |-> ToFloat32(x.data[i])])

\* An arithmetic result stored in an array of the given dtype: unsigned
\* 16-bit integers wrap around, the other dtypes hold the value.
Store(dtype, v) ==
    IF dtype = "uint16" /\ IsFin(v) THEN Int2F(v.n % 65536) ELSE v

\* a + b, a - b, a * b of two arrays of one shape and dtype
ArrAdd(a, b) == Array(a.dtype, [i \in DOMAIN a.data |-> Store(a.dtype, Add(a.data[i], b.data[i]))])
ArrSub(a, b) == Array(a.dtype, [i \in DOMAIN a.data |-> Store(a.dtype, Sub(a.data[i], b.data[i]))])
ArrMul(a, b) == Array(a.dtype, [i \in DOMAIN a.data |-> Store(a.dtype, Mul(a.data[i], b.data[i]))])

\* The dtype of an array combined with a floating-point scalar.
FloatOf(dtype) == IF dtype \in IntDtypes THEN "float64" ELSE dtype

\* a + s, a - s, s * a, a / s for an array a and a floating-point scalar s
ArrAddS(a, s) == Array(FloatOf(a.dtype), [i \in DOMAIN a.data |-> Add(a.data[i], s)])
ArrSubS(a, s) == Array(FloatOf(a.dtype), [i \in DOMAIN a.data |-> Sub(a.data[i], s)])
ArrMulS(s, a) == Array(FloatOf(a.dtype), [i \in DOMAIN a.data |-> Mul(s, a.data[i])])
ArrDivS(a, s) == Array(FloatOf(a.dtype), [i \in DOMAIN a.data |-> Div(a.data[i], s)])

\* np.divide(num, den): true division, the result is floating point
np_divide(num, den) ==
    Array(FloatOf(num.dtype), [i \in DOMAIN num.data |-> Div(num.data[i], den.data[i])])

\* ---------------------------------------------------------------- utils.py

\* validate with the np.isinf line forgotten.
validate_nan_only(array, value) ==
    Array(array.dtype,
          [i \in DOMAIN array.data |->
              IF IsNan(array.data[i]) THEN value ELSE array.data[i]])

\* validate(array, value): NaN and then +/-Inf elements are set to value.
validate(array, value) ==
    Array(array.dtype,
          [i \in DOMAIN array.data |->
              IF IsNan(array.data[i]) \/ IsInf(array.data[i]) THEN value ELSE array.data[i]])

\* crop_to_bounds with the upper limit forgotten.
crop_lower_only(array, low, high) ==
    Array(array.dtype,
          [i \in DOMAIN array.data |->
              IF Lt(array.data[i], low) THEN low ELSE array.data[i]])

\* crop_to_bounds(array, low, high): array[array < low] = low and then
\* array[array > high] = high.
crop_to_bounds(array, low, high) ==
    LET a1 == [i \in DOMAIN array.data |->
                  IF Lt(array.data[i], low) THEN low ELSE array.data[i]]
    IN  Array(array.dtype, [i \in DOMAIN a1 |-> IF Gt(a1[i], high) THEN high ELSE a1[i]])

\* rescale without the validate that follows the affine step.
rescale_unvalidated(array, low, high, bounds) ==
    LET a1   == validate(array, Int2F(0))
        bmin == bounds[1]
        bmax == bounds[2]
        a2   == IF low # bmin \/ high # bmax
                THEN ArrDivS(ArrSubS(a1, low), Sub(high, low))
                ELSE a1
    IN  IF bmin # None /\ bmax # None THEN crop_to_bounds(a2, bmin, bmax) ELSE a2

\* rescale with the crop done before the affine step instead of after it.
rescale_crop_first(array, low, high, bounds) ==
    LET a0   == validate(array, Int2F(0))
        bmin == bounds[1]
        bmax == bounds[2]
        a1   == IF bmin # None /\ bmax # None THEN crop_to_bounds(a0, bmin, bmax) ELSE a0
    IN  IF low # bmin \/ high # bmax
        THEN validate(ArrDivS(ArrSubS(a1, low), Sub(high, low)), Int2F(0))
        ELSE a1

\* rescale(array, low, high, bounds)
rescale(array, low, high, bounds) ==
    LET a1   == validate(array, Int2F(0))
        bmin == bounds[1]
        bmax == bounds[2]
        a2   == IF low # bmin \/ high # bmax
                THEN validate(ArrDivS(ArrSubS(a1, low), Sub(high, low)), Int2F(0))
                ELSE a1
    IN  IF bmin # None /\ bmax # None THEN crop_to_bounds(a2, bmin, bmax) ELSE a2

\* inputs_to_float.inner: every positional argument becomes a float32 array,
\* every keyword argument a float32 scalar.
inputs_to_float_args(a) == [i \in DOMAIN a |-> asarray_float32(a[i])]
inputs_to_float_kwargs(kw) == [k \in DOMAIN kw |-> ToFloat32(kw[k])]

\* ------------------------------------------------------------- __init__.py

NoBounds == <<None, None>>

\* The bodies of the index functions (what runs after the decorator, if any).

\* ndvi with the parentheses of the quotient lost: nir - red / nir + red.
ndvi_unparenthesised(red, nir, low, high) ==
    rescale(ArrAdd(ArrSub(nir, np_divide(red, nir)), red), low, high, NoBounds)

ndvi(red, nir, low, high) ==
    rescale(np_divide(ArrSub(nir, red), ArrAdd(nir, red)), low, high, NoBounds)

gndvi(green, nir, low, high) ==
    rescale(np_divide(ArrSub(nir, green), ArrAdd(nir, green)), low, high, NoBounds)

ndwi(green, nir, low, high) ==
    rescale(np_divide(ArrSub(nir, green), ArrAdd(nir, green)), low, high, NoBounds)

ndre(re, nir, low, high) ==
    rescale(np_divide(ArrSub(nir, re), ArrAdd(nir, re)), low, high, NoBounds)

savi(red, nir, L, low, high) ==
    LET num == ArrMulS(Add(Int2F(1), L), ArrSub(nir, red))
        den == ArrAddS(ArrAdd(nir, red), L)
    IN  rescale(np_divide(num, den), low, high, NoBounds)

sr(red, nir, low, high) ==
    rescale(np_divide(nir, red), low, high, NoBounds)

ipvi(red, nir, low, high) ==
    rescale(np_divide(nir, red), low, high, NoBounds)

\* osavi passing no L, so that savi falls back on its default.
osavi_kwargs_none == [k \in {} |-> None]

\* The keyword arguments osavi passes to savi.
osavi_kwargs == [L |-> Fin(4, 25)]

\* The guards of the four if-statements of pansharpen.
is_simple_browley(m) == m = "simple_browley"
is_sample_mean(m)    == m = "sample_mean"
is_esri(m)           == m = "esri"
\* The last if-statement written as the default branch.
is_browley_default(m) == m \notin {"simple_browley", "sample_mean", "esri"}
is_browley(m)        == m = "browley"

\* ------------------------------------------------------------------- state

VARIABLES
    fn,        \* the entry point the caller invoked
    cur,       \* the function whose code is running
    pc,        \* position: "call", "body", "if1" .. "if4", "return", "done"
    args,      \* positional arguments of cur (arrays)
    kwargs,    \* keyword arguments of cur (name -> scalar)
    entry,     \* the caller's arguments as they were at the call
    ret,       \* the returned arrays (empty until the call returns)
    heap,      \* pansharpen: the array objects, by identity
    r, g, b, pan,  \* pansharpen: the objects its local names are bound to
    method, W, \* pansharpen: its remaining parameters
    executed   \* pansharpen: the branches whose body ran

vars == <<fn, cur, pc, args, kwargs, entry, ret, heap, r, g, b, pan, method, W, executed>>

NoKwargs == [k \in {} |-> None]

\* The value bound to a parameter: the keyword argument, else the default.
Kw(kw, name, default) == IF name \in DOMAIN kw THEN kw[name] ELSE default

Decorated  == {"ndvi", "savi", "osavi", "sr", "ipvi"}
Plain      == {"gndvi", "ndwi", "ndre"}
IndexFns   == Decorated \cup Plain
Methods    == {"simple_browley", "sample_mean", "esri", "browley"}

\* ------------------------------------------------------------------ inputs

Dtypes == {"uint16", "float64"}
Samples(dtype) == IF dtype = "uint16" THEN 0 .. MaxVal ELSE -1 .. MaxVal
Pars == {Int2F(i) : i \in 0 .. MaxPar}

\* Arrays of 1 .. MaxLen samples of a dtype.
Bands(dtype) ==
    UNION {{Array(dtype, [i \in 1 .. n |-> Int2F(f[i])]) : f \in [1 .. n -> Samples(dtype)]}
           : n \in 1 .. MaxLen}

\* The 2x2 grids of the documented NDVI example, flattened.
ExampleRed == Array("int64", <<Int2F(10), Int2F(20), Int2F(30), Int2F(40)>>)
ExampleNir == Array("int64", <<Int2F(40), Int2F(30), Int2F(20), Int2F(10)>>)

BandPairs ==
    UNION {{<<x, y>> \in Bands(dt) \X Bands(dt) : Len(x.data) = Len(y.data)} : dt \in Dtypes}

LowHigh == {NoKwargs} \cup {[low |-> l, high |-> h] : l \in Pars, h \in Pars}

KwargsOf(f) ==
    IF f = "savi"
    THEN LowHigh \cup {[L |-> Fin(4, 25)]}
                 \cup {[L |-> Fin(4, 25), low |-> l, high |-> h] : l \in Pars, h \in Pars}
    ELSE LowHigh

\* Arrays given to rescale directly: finite samples, NaN and +/-Inf.
Elements == {Int2F(i) : i \in -1 .. MaxVal} \cup {NaN, PInf, NInf}
RawArrays ==
    UNION {{Array("float64", f) : f \in [1 .. n -> Elements]} : n \in 1 .. MaxLen}
BoundPairs == {[bmin |-> None, bmax |-> None]} \cup {[bmin |-> l, bmax |-> h] : l \in Pars, h \in Pars}

\* One-pixel bands given to pansharpen, and the 2x2 grid of value 10.
Pixel(v) == Array("float64", <<Int2F(v)>>)
Grid10   == Array("float64", <<Int2F(10), Int2F(10), Int2F(10), Int2F(10)>>)
SetMax(S) == CHOOSE m \in S : \A x \in S : x <= m
\* Which of r, g, b, pan (in this order) are one object: object 1 is r's, and
\* each later argument is an earlier object or the next new one.
Aliasing ==
    {f \in [1 .. 4 -> 1 .. 4] :
        /\ f[1] = 1
        /\ \A i \in 2 .. 4 : f[i] <= SetMax({f[j] : j \in 1 .. (i - 1)}) + 1}
HeapsOf(n) ==
    {[i \in 1 .. n |-> Grid10]} \cup
    {[i \in 1 .. n |-> Pixel(f[i])] : f \in [1 .. n -> 0 .. MaxVal]}
MethodIds == Methods \cup {"brovey"}

Idle == /\ heap = <<>> /\ r = 0 /\ g = 0 /\ b = 0 /\ pan = 0
        /\ method = "" /\ W = None /\ executed = {}

InitIndex ==
    /\ fn \in IndexFns
    /\ args \in (IF fn = "ndvi" THEN BandPairs \cup {<<ExampleRed, ExampleNir>>} ELSE BandPairs)
    /\ kwargs \in KwargsOf(fn)
    /\ Idle

InitRescale ==
    /\ fn = "rescale"
    /\ \E x \in RawArrays : args = <<x>>
    /\ \E l \in Pars, h \in Pars, bd \in BoundPairs :
          kwargs = [low |-> l, high |-> h, bmin |-> bd.bmin, bmax |-> bd.bmax]
    /\ Idle

\* The caller may pass one array object for several of the four arguments.
InitPansharpen ==
    /\ fn = "pansharpen"
    /\ args = <<>> /\ kwargs = NoKwargs
    /\ \E f \in Aliasing :
          /\ r = f[1] /\ g = f[2] /\ b = f[3] /\ pan = f[4]
          /\ heap \in HeapsOf(SetMax({f[i] : i \in 1 .. 4}))
    /\ method \in MethodIds
    /\ W = Fin(1, 10)
    /\ executed = {}

Init ==
    /\ (InitIndex \/ InitRescale \/ InitPansharpen)
    /\ cur = fn
    /\ pc = "call"
    /\ entry = [args |-> args, kwargs |-> kwargs, heap |-> heap,
                r |-> r, g |-> g, b |-> b, pan |-> pan]
    /\ ret = <<>>

\* ----------------------------------------------------------------- actions

Frame == UNCHANGED <<fn, entry, heap, r, g, b, pan, method, W, executed>>

\* Entry into a function that has no decorator: the arguments are bound as
\* they were passed.
Enter ==
    /\ pc = "call" /\ cur \notin Decorated
    /\ pc' = IF cur = "pansharpen" THEN "if1" ELSE "body"
    /\ UNCHANGED <<cur, args, kwargs, ret>>
    /\ Frame

\* inputs_to_float.inner, the wrapper of a decorated function.
inner ==
    /\ pc = "call" /\ cur \in Decorated
    /\ args' = inputs_to_float_args(args)
    /\ kwargs' = inputs_to_float_kwargs(kwargs)
    /\ pc' = "body"
    /\ UNCHANGED <<cur, ret>>
    /\ Frame

Return(value) ==
    /\ ret' = <<value>>
    /\ pc' = "done"
    /\ UNCHANGED <<cur, args, kwargs>>
    /\ Frame

Do_ndvi ==
    /\ pc = "body" /\ cur = "ndvi"
    /\ Return(ndvi(args[1], args[2], Kw(kwargs, "low", Int2F(-1)), Kw(kwargs, "high", Int2F(1))))

Do_gndvi ==
    /\ pc = "body" /\ cur = "gndvi"
    /\ Return(gndvi(args[1], args[2], Kw(kwargs, "low", Int2F(0)), Kw(kwargs, "high", Int2F(1))))

Do_ndwi ==
    /\ pc = "body" /\ cur = "ndwi"
    /\ Return(ndwi(args[1], args[2], Kw(kwargs, "low", Int2F(0)), Kw(kwargs, "high", Int2F(1))))

Do_ndre ==
    /\ pc = "body" /\ cur = "ndre"
    /\ Return(ndre(args[1], args[2], Kw(kwargs, "low", Int2F(0)), Kw(kwargs, "high", Int2F(1))))

\* savi with its parameters bound: L defaults to 0.5, low to 0.0, high to 1.0.
savi_bound(a, kw) ==
    savi(a[1], a[2], Kw(kw, "L", Fin(1, 2)), Kw(kw, "low", Int2F(0)), Kw(kw, "high", Int2F(1)))

\* A call of savi from outside: the decorator, then the body.
savi_call(a, kw) == savi_bound(inputs_to_float_args(a), inputs_to_float_kwargs(kw))

Do_savi ==
    /\ pc = "body" /\ cur = "savi"
    /\ Return(savi_bound(args, kwargs))

\* osavi: return savi(red, nir, L=0.16), a call of the decorated savi.
Do_osavi ==
    /\ pc = "body" /\ cur = "osavi"
    /\ cur' = "savi"
    /\ kwargs' = osavi_kwargs
    /\ pc' = "call"
    /\ UNCHANGED <<args, ret>>
    /\ Frame

Do_sr ==
    /\ pc = "body" /\ cur = "sr"
    /\ Return(sr(args[1], args[2], Kw(kwargs, "low", Int2F(0)), Kw(kwargs, "high", Int2F(1))))

Do_ipvi ==
    /\ pc = "body" /\ cur = "ipvi"
    /\ Return(ipvi(args[1], args[2], Kw(kwargs, "low", Int2F(0)), Kw(kwargs, "high", Int2F(1))))

Do_rescale ==
    /\ pc = "body" /\ cur = "rescale"
    /\ Return(rescale(args[1], kwargs.low, kwargs.high, <<kwargs.bmin, kwargs.bmax>>))

\* --- pansharpen: four if-statements in sequence, then the return

PanFrame == UNCHANGED <<fn, cur, args, kwargs, entry, ret, method, W>>

\* A fresh array object holding a; the result is <<heap, its identity>>.
Alloc(h, a) == <<Append(h, a), Len(h) + 1>>

if_simple_browley ==
    /\ pc = "if1" /\ cur = "pansharpen"
    /\ pc' = "if2"
    /\ IF is_simple_browley(method)
       THEN LET den == np_divide(heap[pan], ArrAdd(ArrAdd(heap[r], heap[g]), heap[b]))
                h1  == Alloc(heap, ArrMul(heap[r], den))
                h2  == Alloc(h1[1], ArrMul(heap[g], den))
                h3  == Alloc(h2[1], ArrMul(heap[b], den))
            IN  /\ heap' = h3[1]
                /\ r' = h1[2] /\ g' = h2[2] /\ b' = h3[2]
                /\ executed' = executed \cup {"simple_browley"}
       ELSE UNCHANGED <<heap, r, g, b, executed>>
    /\ UNCHANGED pan
    /\ PanFrame

if_sample_mean ==
    /\ pc = "if2" /\ cur = "pansharpen"
    /\ pc' = "if3"
    /\ IF is_sample_mean(method)
       THEN LET h1 == Alloc(heap, ArrMulS(Fin(1, 2), ArrAdd(heap[r], heap[pan])))
                h2 == Alloc(h1[1], ArrMulS(Fin(1, 2), ArrAdd(heap[g], heap[pan])))
                h3 == Alloc(h2[1], ArrMulS(Fin(1, 2), ArrAdd(heap[b], heap[pan])))
            IN  /\ heap' = h3[1]
                /\ r' = h1[2] /\ g' = h2[2] /\ b' = h3[2]
                /\ executed' = executed \cup {"sample_mean"}
       ELSE UNCHANGED <<heap, r, g, b, executed>>
    /\ UNCHANGED pan
    /\ PanFrame

if_esri ==
    /\ pc = "if3" /\ cur = "pansharpen"
    /\ pc' = "if4"
    /\ IF is_esri(method)
       THEN LET mean == ArrDivS(ArrAdd(ArrAdd(heap[r], heap[g]), heap[b]), Int2F(3))
                ADJ  == ArrSub(heap[pan], mean)
                h1   == Alloc(heap, ArrAdd(heap[r], ADJ))
                h2   == Alloc(h1[1], ArrAdd(heap[g], ADJ))
                h3   == Alloc(h2[1], ArrAdd(heap[b], ADJ))
            IN  /\ heap' = h3[1]
                /\ r' = h1[2] /\ g' = h2[2] /\ b' = h3[2]
                /\ executed' = executed \cup {"esri"}
       ELSE UNCHANGED <<heap, r, g, b, executed>>
    /\ UNCHANGED pan
    /\ PanFrame

\* browley with the weight forgotten on the blue channel.
browley_unweighted_b(h, w, ir, ig, ib, ipan) ==
    LET h1 == [h  EXCEPT ![ipan] = np_divide(h[ipan],
                   ArrAdd(ArrAdd(ArrMulS(w, h[ir]), ArrMulS(w, h[ig])), h[ib]))]
        h2 == [h1 EXCEPT ![ir] = ArrMul(h1[ir], h1[ipan])]
        h3 == [h2 EXCEPT ![ig] = ArrMul(h2[ig], h2[ipan])]
    IN  [h3 EXCEPT ![ib] = ArrMul(h3[ib], h3[ipan])]

\* browley with pan rebound to a new array (pan = pan / ...) instead of
\* updated in place: the caller's pan keeps its values.
browley_rebinds_pan(h, w, ir, ig, ib, ipan) ==
    LET dnf == np_divide(h[ipan],
                   ArrAdd(ArrAdd(ArrMulS(w, h[ir]), ArrMulS(w, h[ig])), ArrMulS(w, h[ib])))
        h2  == [h  EXCEPT ![ir] = ArrMul(h[ir], dnf)]
        h3  == [h2 EXCEPT ![ig] = ArrMul(h2[ig], dnf)]
    IN  [h3 EXCEPT ![ib] = ArrMul(h3[ib], dnf)]

\* The browley branch updates the objects in place, one statement after the
\* other: pan /= (W*r + W*g + W*b); r *= pan; g *= pan; b *= pan.
browley(h, w, ir, ig, ib, ipan) ==
    LET h1 == [h  EXCEPT ![ipan] = np_divide(h[ipan],
                   ArrAdd(ArrAdd(ArrMulS(w, h[ir]), ArrMulS(w, h[ig])), ArrMulS(w, h[ib])))]
        h2 == [h1 EXCEPT ![ir] = ArrMul(h1[ir], h1[ipan])]
        h3 == [h2 EXCEPT ![ig] = ArrMul(h2[ig], h2[ipan])]
    IN  [h3 EXCEPT ![ib] = ArrMul(h3[ib], h3[ipan])]

if_browley ==
    /\ pc = "if4" /\ cur = "pansharpen"
    /\ pc' = "return"
    /\ IF is_browley(method)
       THEN /\ heap' = browley(heap, W, r, g, b, pan)
            /\ executed' = executed \cup {"browley"}
       ELSE UNCHANGED <<heap, executed>>
    /\ UNCHANGED <<r, g, b, pan>>
    /\ PanFrame

\* return r, g, b
pansharpen_return ==
    /\ pc = "return" /\ cur = "pansharpen"
    /\ ret' = <<heap[r], heap[g], heap[b]>>
    /\ pc' = "done"
    /\ UNCHANGED <<fn, cur, args, kwargs, entry, heap, r, g, b, pan, method, W, executed>>

Next ==
    \/ Enter \/ inner
    \/ Do_ndvi \/ Do_gndvi \/ Do_ndwi \/ Do_ndre \/ Do_savi \/ Do_osavi \/ Do_sr \/ Do_ipvi
    \/ Do_rescale
    \/ if_simple_browley \/ if_sample_mean \/ if_esri \/ if_browley \/ pansharpen_return

Spec == Init /\ [][Next]_vars

\* ------------------------------------------------------------------ claims

Done(f)      == pc = "done" /\ fn = f
DefaultRange == DOMAIN entry.kwargs = {}
Pixels       == DOMAIN ret[1].data
Zero         == Int2F(0)
One          == Int2F(1)

\* The two band samples of pixel i as the caller gave them.
Red0(i) == entry.args[1].data[i]
Nir0(i) == entry.args[2].data[i]

\* C1: with default low and high, ndvi returns (nir - red) / (nir + red) at
\* every pixel whose denominator is not zero (so [[0.6, 0.2], [-0.2, -0.6]]
\* for the documented example).
C1_NdviFormula ==
    (Done("ndvi") /\ DefaultRange) =>
        \A i \in Pixels :
            Add(Nir0(i), Red0(i)) # Zero =>
                ret[1].data[i] = Div(Sub(Nir0(i), Red0(i)), Add(Nir0(i), Red0(i)))

\* C2: with default low and high, ndvi returns exactly 0 at every pixel where
\* nir + red = 0.
C2_NdviZeroDenominator ==
    (Done("ndvi") /\ DefaultRange) =>
        \A i \in Pixels : Add(Nir0(i), Red0(i)) = Zero => ret[1].data[i] = Zero

\* C3: for positive red and nir, every element ndvi returns with default low
\* and high lies in [-1, 1].
AllPositive == \A i \in DOMAIN entry.args[1].data : Red0(i).n > 0 /\ Nir0(i).n > 0
C3_NdviRange ==
    (Done("ndvi") /\ DefaultRange /\ AllPositive) =>
        \A i \in Pixels : Le(Int2F(-1), ret[1].data[i]) /\ Le(ret[1].data[i], One)
C3_Witness ==
    /\ Done("ndvi") /\ DefaultRange /\ AllPositive
    /\ \E i \in Pixels : Red0(i) # Nir0(i)

\* C4: whatever array, low, high (high = low included) and bounds it is given,
\* rescale returns no NaN and no +/-Inf element; so neither does any index
\* function, which returns through rescale.
C4_RescaleFinite ==
    (pc = "done" /\ fn \in IndexFns \cup {"rescale"}) =>
        \A i \in Pixels : IsFin(ret[1].data[i])
C4_Witness ==
    /\ Done("rescale")
    /\ entry.kwargs.high = entry.kwargs.low /\ entry.kwargs.low # Zero
    /\ entry.kwargs.bmin = None
    /\ \E i \in Pixels : IsNan(entry.args[1].data[i]) /\ ret[1].data[i] = Zero

\* Sanitize(x) of one element.
Sanitized(x) == IF IsFin(x) THEN x ELSE Zero
BoundsAreRange ==
    /\ entry.kwargs.bmin = entry.kwargs.low
    /\ entry.kwargs.bmax = entry.kwargs.high

\* C5 as stated: rescale(x, low, high, bounds=(low, high)) returns Sanitize(x),
\* every finite element unchanged.
C5_IdentityOriginal ==
    (Done("rescale") /\ BoundsAreRange) =>
        \A i \in Pixels : ret[1].data[i] = Sanitized(entry.args[1].data[i])

\* C5 amended: rescale(x, low, high, bounds=(low, high)) returns Sanitize(x)
\* clipped: each element of Sanitize(x) below low is returned as low, and the
\* result of that above high is returned as high; the others are unchanged.
C5_IdentityClipped ==
    (Done("rescale") /\ BoundsAreRange) =>
        \A i \in Pixels :
            LET x  == Sanitized(entry.args[1].data[i])
                lo == entry.kwargs.low
                hi == entry.kwargs.high
                m  == IF Lt(x, lo) THEN lo ELSE x
            IN  ret[1].data[i] = IF Lt(hi, m) THEN hi ELSE m
C5_Witness ==
    /\ Done("rescale") /\ BoundsAreRange
    /\ Lt(entry.kwargs.low, entry.kwargs.high)
    /\ \E i \in Pixels : Lt(entry.kwargs.high, entry.args[1].data[i])
                         /\ ret[1].data[i] = entry.kwargs.high

HasBounds == entry.kwargs.bmin # None /\ entry.kwargs.bmax # None
WithinBounds ==
    \A i \in Pixels : /\ Le(entry.kwargs.bmin, ret[1].data[i])
                      /\ Le(ret[1].data[i], entry.kwargs.bmax)

\* C6 as stated: for every non-null bound pair (lo, hi), every element rescale
\* returns satisfies lo <= out <= hi.
C6_ClipOriginal == (Done("rescale") /\ HasBounds) => WithinBounds

\* C6 amended: for every non-null bound pair (lo, hi) with lo <= hi, every
\* element rescale returns satisfies lo <= out <= hi.
C6_ClipOrdered ==
    (Done("rescale") /\ HasBounds /\ Le(entry.kwargs.bmin, entry.kwargs.bmax)) => WithinBounds
C6_Witness ==
    /\ Done("rescale") /\ HasBounds
    /\ Lt(entry.kwargs.bmin, entry.kwargs.bmax)
    /\ ~BoundsAreRange
    /\ \E i \in Pixels :
          Lt(rescale(entry.args[1], entry.kwargs.low, entry.kwargs.high, NoBounds).data[i],
             entry.kwargs.bmin)

\* C7: with default low and high, osavi(red, nir) returns the array that
\* savi(red, nir, L=0.16) returns.
C7_OsaviIsSavi ==
    (Done("osavi") /\ DefaultRange) =>
        ret = <<savi_call(entry.args, [L |-> Fin(4, 25)])>>
C7_Witness ==
    /\ Done("osavi") /\ DefaultRange
    /\ entry.args[1].dtype = "uint16"
    /\ \E i \in Pixels : ret[1].data[i] # Zero

\* The four arguments of pansharpen are four array objects that all hold c.
Separate == Cardinality({entry.r, entry.g, entry.b, entry.pan}) = 4
AllHold(c) == \A o \in DOMAIN entry.heap : \A i \in DOMAIN entry.heap[o].data :
                  entry.heap[o].data[i] = c

C9_MethodDispatch ==
    (fn = "pansharpen") =>
        /\ executed \subseteq {method}
        /\ method \notin Methods =>
              /\ executed = {}
              /\ heap = entry.heap
              /\ <<r, g, b, pan>> = <<entry.r, entry.g, entry.b, entry.pan>>
              /\ pc = "done" =>
                    ret = <<entry.heap[entry.r], entry.heap[entry.g], entry.heap[entry.b]>>
        /\ (method \in Methods /\ pc \in {"return", "done"}) => executed = {method}
C9_Witness == Done("pansharpen") /\ method = "brovey" /\ Len(ret) = 3

\* C10: in every index function, all positional and keyword arguments are
\* float32 when the arithmetic of the formula starts.
C10_AllCoerced ==
    (pc = "body" /\ cur \in IndexFns) =>
        /\ \A i \in DOMAIN args : args[i].dtype = "float32"
        /\ \A k \in DOMAIN kwargs : ToFloat32(kwargs[k]) = kwargs[k]


EqualRange   == entry.kwargs.high = entry.kwargs.low
AffineRuns   == entry.kwargs.low # entry.kwargs.bmin \/ entry.kwargs.high # entry.kwargs.bmax

\* C11 as stated: rescale called with high = low raises an error and returns
\* no array ("raised" is the position of a call that ended in an exception).
C11_InvalidRangeOriginal ==
    (fn = "rescale" /\ EqualRange /\ pc \notin {"call", "body"}) =>
        pc = "raised" /\ ret = <<>>

\* C11 amended: rescale called with high = low raises nothing and returns an
\* array of finite elements; when its affine step runs, every element of
\* (array - low) / 0 is NaN or Inf and is set to 0 before the crop, so without
\* bounds the array returned is all zeros.
C11_EqualRangeReturnsZeros ==
    (fn = "rescale" /\ EqualRange /\ pc \notin {"call", "body"}) =>
        /\ pc = "done" /\ Len(ret) = 1
        /\ \A i \in Pixels : IsFin(ret[1].data[i])
        /\ AffineRuns =>
              ret[1] = (IF HasBounds
                        THEN crop_to_bounds(Array("float64", [i \in Pixels |-> Zero]),
                                            entry.kwargs.bmin, entry.kwargs.bmax)
                        ELSE Array("float64", [i \in Pixels |-> Zero]))
C11_Witness ==
    /\ Done("rescale") /\ EqualRange /\ ~HasBounds
    /\ \E i \in Pixels : /\ IsFin(entry.args[1].data[i])
                         /\ entry.args[1].data[i] # entry.kwargs.low
                         /\ ret[1].data[i] = Zero


\* The objects the caller passed, and sample i of each as it was at the call.
CallerObjects == DOMAIN entry.heap
R0(i)   == entry.heap[entry.r].data[i]
G0(i)   == entry.heap[entry.g].data[i]
B0(i)   == entry.heap[entry.b].data[i]
Pan0(i) == entry.heap[entry.pan].data[i]
\* pan / (W*r + W*g + W*b) of the values at the call
Dnf0(i) == Div(Pan0(i), Add(Add(Mul(W, R0(i)), Mul(W, G0(i))), Mul(W, B0(i))))

Green0(i) == entry.args[1].data[i]
FloatBands == \A a \in DOMAIN entry.args : entry.args[a].dtype \in FloatDtypes

\* C13: ndwi computes (GREEN - NIR) / (GREEN + NIR) at every pixel with a
\* non-zero denominator (default low = 0, high = 1 leave the index as it is),
\* so a pixel with green > nir > 0 gets a positive value.
C13_NdwiFormula ==
    (Done("ndwi") /\ DefaultRange /\ FloatBands) =>
        \A i \in Pixels :
            /\ Add(Green0(i), Nir0(i)) # Zero =>
                  ret[1].data[i] = Div(Sub(Green0(i), Nir0(i)), Add(Green0(i), Nir0(i)))
            /\ (Lt(Nir0(i), Green0(i)) /\ Lt(Zero, Nir0(i))) => Lt(Zero, ret[1].data[i])


\* C14: ipvi computes NIR / (NIR + RED) at every pixel with a non-zero
\* denominator (default low = 0, high = 1 leave the index as it is), so for
\* positive red and nir its value lies in [0, 1].
C14_IpviFormula ==
    (Done("ipvi") /\ DefaultRange) =>
        \A i \in Pixels :
            /\ Add(Nir0(i), Red0(i)) # Zero =>
                  ret[1].data[i] = Div(Nir0(i), Add(Nir0(i), Red0(i)))
            /\ (Red0(i).n > 0 /\ Nir0(i).n > 0) =>
                  Le(Zero, ret[1].data[i]) /\ Le(ret[1].data[i], One)


\* C15: osavi honours low and high: for low # high, osavi(red, nir, low=low,
\* high=high) returns what savi(red, nir, L=0.16, low=low, high=high) returns.
C15_OsaviHonoursRange ==
    (Done("osavi") /\ ~DefaultRange /\ entry.kwargs.low # entry.kwargs.high) =>
        ret = <<savi_call(entry.args, [L    |-> Fin(4, 25),
                                       low  |-> entry.kwargs.low,
                                       high |-> entry.kwargs.high])>>

\* C16: the channels browley returns are x * pan / (W*r + W*g + W*b) of the
\* values r, g, b and pan held at the call, for x in {r, g, b}, also when the
\* caller passes one array object for several of the four arguments.
C16_BrowleyEntryValues ==
    (Done("pansharpen") /\ method = "browley") =>
        \A i \in DOMAIN ret[1].data :
            /\ ret[1].data[i] = Mul(R0(i), Dnf0(i))
            /\ ret[2].data[i] = Mul(G0(i), Dnf0(i))
            /\ ret[3].data[i] = Mul(B0(i), Dnf0(i))

====
